---- MODULE Spec2Model ----
(***************************************************************************)
(* A model of HARK/ConsumptionSaving/ConsPortfolioModelALT.py: the         *)
(* PortfolioSolution carrier, PortfolioConsumerType.updateSolutionTerminal *)
(* and updateRiskyDstn, and the one period solver solveConsPortfolio.      *)
(*                                                                         *)
(* Numbers.  The program computes in IEEE doubles.  The model computes in  *)
(* exact rationals extended with +inf, -inf and NaN, which is what the     *)
(* doubles give on the inputs enumerated here (small dyadic rationals)     *)
(* wherever the double result is exact, and in particular it reproduces    *)
(* 0/0 = NaN, x/0 = inf and comparisons with NaN being false.  Signed      *)
(* zeros are not distinguished.  CRRA is drawn from CRRAVals = {1}: it is  *)
(* the only coefficient for which x**(-CRRA) and x**(-1/CRRA) stay         *)
(* rational.                                                               *)
(***************************************************************************)
EXTENDS Integers, Sequences, FiniteSets, TLC

\* ------------------------------------------------------------------ bounds
\* Largest number of points of ShareGrid (ShareCount ranges over 2..MaxShareCount).
MaxShareCount == 3
\* Largest number of points of aXtraGrid.
MaxAXtra == 2
\* Largest T_cycle, and (plus one) largest length of a per-period list.
MaxTCycle == 2

\* ------------------------------------------------- extended rational numbers
\* A number is [n |-> numerator, d |-> denominator], d > 0 and gcd(n, d) = 1,
\* or one of the three IEEE specials with d = 0.
RECURSIVE GCD(_, _)
GCD(a, b) == IF b = 0 THEN a ELSE GCD(b, a % b)

Abs(x) == IF x < 0 THEN -x ELSE x

Max(a, b) == IF a >= b THEN a ELSE b

Min(a, b) == IF a <= b THEN a ELSE b

Sgn(x) == IF x < 0 THEN -1 ELSE IF x > 0 THEN 1 ELSE 0

NaN == [n |-> 0, d |-> 0]

PosInf == [n |-> 1, d |-> 0]

NegInf == [n |-> -1, d |-> 0]

\* The rational n/d, d # 0, in lowest terms.
Q(n, d) ==
  LET g == GCD(Abs(n), Abs(d))
      s == IF d < 0 THEN -1 ELSE 1
  IN [n |-> s * (n \div g), d |-> s * (d \div g)]

Zero == Q(0, 1)

One == Q(1, 1)

IsNaN(a) == a.d = 0 /\ a.n = 0

IsInf(a) == a.d = 0 /\ a.n # 0

IsFinite(a) == a.d # 0

RNeg(a) == [n |-> -a.n, d |-> a.d]

RAdd(a, b) ==
  IF IsNaN(a) \/ IsNaN(b) THEN NaN
  ELSE IF IsInf(a) /\ IsInf(b) THEN (IF a.n = b.n THEN a ELSE NaN)
  ELSE IF IsInf(a) THEN a
  ELSE IF IsInf(b) THEN b
  ELSE LET g == GCD(a.d, b.d)
       IN Q(a.n * (b.d \div g) + b.n * (a.d \div g), (a.d \div g) * b.d)

RSub(a, b) == RAdd(a, RNeg(b))

RMul(a, b) ==
  IF IsNaN(a) \/ IsNaN(b) THEN NaN
  ELSE IF IsInf(a) \/ IsInf(b)
       THEN (IF a.n = 0 \/ b.n = 0 THEN NaN
             ELSE IF Sgn(a.n) * Sgn(b.n) > 0 THEN PosInf ELSE NegInf)
  ELSE LET g == GCD(Abs(a.n), b.d)
           h == GCD(Abs(b.n), a.d)
       IN Q((a.n \div g) * (b.n \div h), (a.d \div h) * (b.d \div g))

\* 1/a: 1/0 = inf, 1/inf = 0, 1/NaN = NaN.
RInv(a) ==
  IF IsNaN(a) THEN NaN
  ELSE IF IsInf(a) THEN Zero
  ELSE IF a.n = 0 THEN PosInf
  ELSE Q(a.d, a.n)

\* a/b as the doubles compute it: 0/0 = NaN, x/0 = +-inf.
RDiv(a, b) == RMul(a, RInv(b))

\* a < b; false when either is NaN.
RLt(a, b) ==
  IF IsNaN(a) \/ IsNaN(b) THEN FALSE
  ELSE IF IsInf(a) /\ IsInf(b) THEN a.n < b.n
  ELSE IF IsInf(a) THEN a.n < 0
  ELSE IF IsInf(b) THEN b.n > 0
  ELSE IF Sgn(a.n) # Sgn(b.n) THEN a.n < b.n
  ELSE LET g == GCD(a.d, b.d)
           h == Max(GCD(Abs(a.n), Abs(b.n)), 1)
       IN (a.n \div h) * (b.d \div g) < (b.n \div h) * (a.d \div g)

RLe(a, b) == ~IsNaN(a) /\ ~IsNaN(b) /\ ~RLt(b, a)

RGt(a, b) == RLt(b, a)

RGe(a, b) == RLe(b, a)

\* a == b as the doubles compare: NaN is equal to nothing.
REq(a, b) == ~IsNaN(a) /\ ~IsNaN(b) /\ a = b

\* a != b as the doubles compare: true when either is NaN.
RNe(a, b) == ~REq(a, b)

\* x ** (-CRRA) for CRRA = 1.
PowNegCRRA(x, CRRA) == RInv(x)

\* x ** (-1./CRRA) for CRRA = 1.
PowNvrs(x, CRRA) == RInv(x)

\* x ** (1.-CRRA) for CRRA = 1: numpy gives 1 for every x, NaN included.
PowOneMinusCRRA(x, CRRA) == One

\* ------------------------------------------------------- function objects
\* The callables held by a PortfolioSolution are records tagged by their class.
None == [kind |-> "None"]

NullFunc == [kind |-> "NullFunc"]

IdentityFunction(i_dim, n_dims) ==
  [kind |-> "IdentityFunction", i_dim |-> i_dim, n_dims |-> n_dims]

ConstantFunction(value) == [kind |-> "ConstantFunction", value |-> value]

LinearInterp(x_list, y_list, intercept_limit, slope_limit) ==
  [kind |-> "LinearInterp", x_list |-> x_list, y_list |-> y_list,
   intercept_limit |-> intercept_limit, slope_limit |-> slope_limit]

LinearInterpOnInterp1D(xInterpolators, y_values) ==
  [kind |-> "LinearInterpOnInterp1D", xInterpolators |-> xInterpolators,
   y_list |-> y_values]

ValueFunc(vFuncNvrs, CRRA) ==
  [kind |-> "ValueFunc", func |-> vFuncNvrs, CRRA |-> CRRA]

ValueFunc2D(vFuncNvrs, CRRA) ==
  [kind |-> "ValueFunc2D", func |-> vFuncNvrs, CRRA |-> CRRA]

MargValueFunc(cFunc, CRRA) ==
  [kind |-> "MargValueFunc", func |-> cFunc, CRRA |-> CRRA]

MargValueFunc2D(cFunc, CRRA) ==
  [kind |-> "MargValueFunc2D", func |-> cFunc, CRRA |-> CRRA]

\* numpy's order of doubles for searching: NaN sorts after every number.
NpLess(a, b) == RLt(a, b) \/ (IsNaN(b) /\ ~IsNaN(a))

\* np.searchsorted(xs[lo:hi], key), side left, as an offset into xs (0-based):
\* bisection, as numpy does it.
RECURSIVE BinSearchLeft(_, _, _, _)
BinSearchLeft(xs, key, lo, hi) ==
  IF lo >= hi THEN lo
  ELSE LET mid == lo + ((hi - lo) \div 2)
       IN IF NpLess(xs[mid + 1], key)
          THEN BinSearchLeft(xs, key, mid + 1, hi)
          ELSE BinSearchLeft(xs, key, lo, mid)

\* (1 - alpha) * lo + alpha * hi, the program's linear interpolation formula.
Lerp(alpha, lo, hi) == RAdd(RMul(RSub(One, alpha), lo), RMul(alpha, hi))

\* A LinearInterp evaluated at x: the segment is found by bisection over all
\* nodes but the last, the value is the linear interpolation (extrapolation
\* above the last node) between the segment's nodes; below the first node it is
\* NaN; with limits given, above the last node it is the limiting line.
EvalLinearInterp(f, x) ==
  LET n == Len(f.x_list)
      i == Max(BinSearchLeft(f.x_list, x, 0, n - 1), 1)
      alpha == RDiv(RSub(x, f.x_list[i]), RSub(f.x_list[i + 1], f.x_list[i]))
      y == Lerp(alpha, f.y_list[i], f.y_list[i + 1])
  IN IF RLt(x, f.x_list[1]) THEN NaN
     ELSE IF f.intercept_limit # None /\ RGt(x, f.x_list[n])
          THEN RAdd(f.intercept_limit, RMul(f.slope_limit, x))
     ELSE y

\* The value of a callable of one argument at x.  (A ValueFunc is the CRRA
\* utility of its argument function, a logarithm for CRRA = 1: its values are
\* not rational and no result of the program depends on them; see EndOfPrdv.)
RECURSIVE Eval1(_, _)
Eval1(f, x) ==
  CASE f.kind = "IdentityFunction" -> x
    [] f.kind = "ConstantFunction" -> f.value
    [] f.kind = "LinearInterp" -> EvalLinearInterp(f, x)
    [] f.kind = "MargValueFunc" -> PowNegCRRA(Eval1(f.func, x), f.CRRA)

\* The value of a callable of two arguments at (x, y).  A LinearInterpOnInterp1D
\* interpolates linearly in y between the two 1D interpolants around y.
RECURSIVE Eval2(_, _, _)
Eval2(f, x, y) ==
  CASE f.kind = "IdentityFunction" -> (IF f.i_dim = 0 THEN x ELSE y)
    [] f.kind = "ConstantFunction" -> f.value
    [] f.kind = "LinearInterpOnInterp1D" ->
         LET n == Len(f.y_list)
             y_pos == Min(Max(BinSearchLeft(f.y_list, y, 0, n), 1), n - 1)
             alpha == RDiv(RSub(y, f.y_list[y_pos]),
                           RSub(f.y_list[y_pos + 1], f.y_list[y_pos]))
         IN Lerp(alpha, Eval1(f.xInterpolators[y_pos], x),
                        Eval1(f.xInterpolators[y_pos + 1], x))
    [] f.kind = "MargValueFunc2D" -> PowNegCRRA(Eval2(f.func, x, y), f.CRRA)

\* ------------------------------------------------------- PortfolioSolution
\* PortfolioSolution.__init__: a field that is not given becomes a NullFunc.
OrNullFunc(f) == IF f = None THEN NullFunc ELSE f

PortfolioSolution(cFuncAdj, ShareFuncAdj, vFuncAdj, vPfuncAdj, cFuncFxd, ShareFuncFxd, vFuncFxd, dvdmFuncFxd, dvdsFuncFxd) ==
  [cFuncAdj |-> OrNullFunc(cFuncAdj),
   cFuncFxd |-> OrNullFunc(cFuncFxd),
   ShareFuncAdj |-> OrNullFunc(ShareFuncAdj),
   ShareFuncFxd |-> OrNullFunc(ShareFuncFxd),
   vFuncAdj |-> OrNullFunc(vFuncAdj),
   vFuncFxd |-> OrNullFunc(vFuncFxd),
   vPfuncAdj |-> OrNullFunc(vPfuncAdj),
   dvdmFuncFxd |-> OrNullFunc(dvdmFuncFxd),
   dvdsFuncFxd |-> OrNullFunc(dvdsFuncFxd)]

SolutionFields ==
  {"cFuncAdj", "ShareFuncAdj", "vFuncAdj", "vPfuncAdj", "cFuncFxd",
   "ShareFuncFxd", "vFuncFxd", "dvdmFuncFxd", "dvdsFuncFxd"}

\* A terminal solution whose fixed share function returns the resources.
TerminalSolutionSwapped(CRRA) ==
  PortfolioSolution(IdentityFunction(0, 1), ConstantFunction(Zero),
                    ValueFunc(IdentityFunction(0, 1), CRRA),
                    MargValueFunc(IdentityFunction(0, 1), CRRA),
                    IdentityFunction(0, 2), IdentityFunction(0, 2),
                    ValueFunc2D(IdentityFunction(0, 2), CRRA),
                    MargValueFunc2D(IdentityFunction(0, 2), CRRA),
                    ConstantFunction(Zero))

\* updateSolutionTerminal: the solution of the terminal period.
TerminalSolution(CRRA) ==
  LET cFuncAdj_terminal == IdentityFunction(0, 1)
      cFuncFxd_terminal == IdentityFunction(0, 2)
      ShareFuncAdj_terminal == ConstantFunction(Zero)
      ShareFuncFxd_terminal == IdentityFunction(1, 2)
      vFuncAdj_terminal == ValueFunc(cFuncAdj_terminal, CRRA)
      vFuncFxd_terminal == ValueFunc2D(cFuncFxd_terminal, CRRA)
      vPfuncAdj_terminal == MargValueFunc(cFuncAdj_terminal, CRRA)
      dvdmFuncFxd_terminal == MargValueFunc2D(cFuncFxd_terminal, CRRA)
      dvdsFuncFxd_terminal == ConstantFunction(Zero)
  IN PortfolioSolution(cFuncAdj_terminal, ShareFuncAdj_terminal,
                       vFuncAdj_terminal, vPfuncAdj_terminal,
                       cFuncFxd_terminal, ShareFuncFxd_terminal,
                       vFuncFxd_terminal, dvdmFuncFxd_terminal,
                       dvdsFuncFxd_terminal)

\* ---------------------------------------------------- solveConsPortfolio
\* The arguments of solveConsPortfolio are the fields of the record p; sn is
\* solution_next.  Arrays are sequences, indexed from 1.

\* np.insert(xs, 0, x)
Insert0(xs, x) == <<x>> \o xs

\* aNrmGrid: the asset grid with a point at exactly zero added.
aNrmGridOf(p) == Insert0(p.aXtraGrid, Zero)

aNrm_N(p) == Len(aNrmGridOf(p))

Share_N(p) == Len(p.ShareGrid)

Shock_N(p) == Len(p.ShockDstn.ShockPrbs)

\* The sum of f[1] .. f[n].
RECURSIVE RSum(_, _)
RSum(f, n) == IF n = 0 THEN Zero ELSE RAdd(RSum(f, n - 1), f[n])

\* Rport at share index k and shock index n.
Rport(p, k, n) ==
  RAdd(RMul(RSub(One, p.ShareGrid[k]), p.Rfree),
       RMul(p.ShareGrid[k], p.ShockDstn.Risky[n]))

\* PermShks_tiled * PermGroFac
PermFac(p, n) == RMul(p.ShockDstn.PermShks[n], p.PermGroFac)

\* Future market resources at asset index i, share index k, shock index n.
mNrm_next(p, i, k, n) ==
  RAdd(RDiv(RMul(Rport(p, k, n), aNrmGridOf(p)[i]), PermFac(p, n)),
       p.ShockDstn.TranShks[n])

\* Marginal value of market resources next period, combined by AdjustPrb.
dvdm_next(p, sn, i, k, n) ==
  LET m == mNrm_next(p, i, k, n)
      dvdmAdj_next == Eval1(sn.vPfuncAdj, m)
  IN IF RLt(p.AdjustPrb, One)
     THEN RAdd(RMul(p.AdjustPrb, dvdmAdj_next),
               RMul(RSub(One, p.AdjustPrb),
                    Eval2(sn.dvdmFuncFxd, m, p.ShareGrid[k])))
     ELSE dvdmAdj_next

\* Marginal value of the risky share next period, combined by AdjustPrb.
dvds_next(p, sn, i, k, n) ==
  LET m == mNrm_next(p, i, k, n)
      dvdsAdj_next == Zero
  IN IF RLt(p.AdjustPrb, One)
     THEN RAdd(RMul(p.AdjustPrb, dvdsAdj_next),
               RMul(RSub(One, p.AdjustPrb),
                    Eval2(sn.dvdsFuncFxd, m, p.ShareGrid[k])))
     ELSE dvdsAdj_next

temp_fac_A(p, n) == PowNegCRRA(PermFac(p, n), p.CRRA)

temp_fac_B(p, n) == PowOneMinusCRRA(PermFac(p, n), p.CRRA)

\* End-of-period marginal value of assets, an aNrm_N x Share_N array.
EndOfPrddvdaOf(p, sn) ==
  [i \in 1..aNrm_N(p) |-> [k \in 1..Share_N(p) |->
     LET term == [n \in 1..Shock_N(p) |->
                    RMul(RMul(RMul(p.ShockDstn.ShockPrbs[n], Rport(p, k, n)),
                              temp_fac_A(p, n)),
                         dvdm_next(p, sn, i, k, n))]
     IN RMul(p.DiscFac, RSum(term, Shock_N(p)))]]

\* EndOfPrddvda ** (-1./CRRA), elementwise.
EndOfPrddvdaNvrsOf(p, dvda) ==
  [i \in 1..aNrm_N(p) |-> [k \in 1..Share_N(p) |-> PowNvrs(dvda[i][k], p.CRRA)]]

\* End-of-period marginal value of the risky share, an aNrm_N x Share_N array.
EndOfPrddvdsOf(p, sn) ==
  [i \in 1..aNrm_N(p) |-> [k \in 1..Share_N(p) |->
     LET term == [n \in 1..Shock_N(p) |->
                    LET Rxs == RSub(Rport(p, k, n), p.Rfree)
                    IN RMul(p.ShockDstn.ShockPrbs[n],
                            RAdd(RMul(RMul(RMul(Rxs, aNrmGridOf(p)[i]),
                                           temp_fac_A(p, n)),
                                      dvdm_next(p, sn, i, k, n)),
                                 RMul(temp_fac_B(p, n),
                                      dvds_next(p, sn, i, k, n))))]
     IN RMul(p.DiscFac, RSum(term, Shock_N(p)))]]

\* The fields of solution_next that the expectations call (lines 419-441), in
\* the order of the calls.
CalledFields(p) ==
  <<"vPfuncAdj">>
  \o (IF RLt(p.AdjustPrb, One) THEN <<"dvdmFuncFxd", "dvdsFuncFxd">> ELSE <<>>)
  \o (IF p.vFuncBool
      THEN <<"vFuncAdj">> \o (IF RLt(p.AdjustPrb, One) THEN <<"vFuncFxd">> ELSE <<>>)
      ELSE <<>>)

\* constrained = FOC_s[:,-1] > 0.
constrained(p, FOC_s) ==
  [i \in 1..aNrm_N(p) |-> RGt(FOC_s[i][Share_N(p)], Zero)]

\* Share_now after lines 460-464.
Share_nowInit(p, FOC_s) ==
  [i \in 1..aNrm_N(p) |->
     IF i = 1 \/ constrained(p, FOC_s)[i] THEN One ELSE Zero]

\* cNrmAdj_now after lines 461-466.
cNrmAdj_nowInit(p, FOC_s, dvda) ==
  [i \in 1..aNrm_N(p) |->
     IF i = 1 \/ constrained(p, FOC_s)[i]
     THEN PowNvrs(dvda[i][Share_N(p)], p.CRRA) ELSE Zero]

\* crossing[j, k]: FOC_s[j, k+1] <= 0 and FOC_s[j, k] >= 0, k in 1..Share_N-1.
crossing(p, FOC_s, j, k) ==
  RLe(FOC_s[j][k + 1], Zero) /\ RGe(FOC_s[j][k], Zero)

\* The indices np.argwhere(crossing[j,:]) lists.
CrossingIdx(p, FOC_s, j) ==
  {k \in 1..(Share_N(p) - 1) : crossing(p, FOC_s, j, k)}

SetMax(S) == CHOOSE x \in S : \A y \in S : y <= x

\* idx = np.argwhere(crossing[j,:])[-1][0]: the last crossing.
LastCrossing(p, FOC_s, j) == SetMax(CrossingIdx(p, FOC_s, j))

\* alpha = 1. - top_f/(top_f-bot_f)
alphaOf(bot_f, top_f) == RSub(One, RDiv(top_f, RSub(top_f, bot_f)))

\* Lines 474-481: the share at the zero of the FOC between the bracketing points.
ShareAtCrossing(p, FOC_s, j, idx) ==
  Lerp(alphaOf(FOC_s[j][idx], FOC_s[j][idx + 1]),
       p.ShareGrid[idx], p.ShareGrid[idx + 1])

\* Lines 476-482: consumption at the zero of the FOC.
cNrmAtCrossing(p, FOC_s, Nvrs, j, idx) ==
  Lerp(alphaOf(FOC_s[j][idx], FOC_s[j][idx + 1]), Nvrs[j][idx], Nvrs[j][idx + 1])

\* aNrmGrid + c, elementwise.
AddGrid(p, c) == [i \in 1..aNrm_N(p) |-> RAdd(aNrmGridOf(p)[i], c[i])]

\* Column k of an aNrm_N x Share_N array.
Column(p, A, k) == [i \in 1..aNrm_N(p) |-> A[i][k]]

\* Lines 486-490: the endogenous grid and the policies with the point at m = 0.
mNrmAdj_nowOf(p, c) == Insert0(AddGrid(p, c), Zero)

cNrmAdj_nowOf(c) == Insert0(c, Zero)

Share_nowOf(Share) == Insert0(Share, One)

\* Lines 501-509: the consumption function with the share fixed.
cFuncFxd_nowOf(p, Nvrs) ==
  LinearInterpOnInterp1D(
    [k \in 1..Share_N(p) |->
       LinearInterp(Insert0(AddGrid(p, Column(p, Nvrs, k)), Zero),
                    Insert0(Column(p, Nvrs, k), Zero), None, None)],
    p.ShareGrid)

dvdsFuncFxd_nowOf(p, Nvrs, dvds) ==
  LinearInterpOnInterp1D(
    [k \in 1..Share_N(p) |->
       LinearInterp(Insert0(AddGrid(p, Column(p, Nvrs, k)), Zero),
                    Insert0(Column(p, dvds, k), dvds[1][k]), None, None)],
    p.ShareGrid)

\* Lines 486-526: the solution returned for the current period.
SolutionNow(p, Share, c, Nvrs, dvds) ==
  LET cFuncAdj_now ==
        LinearInterp(mNrmAdj_nowOf(p, c), cNrmAdj_nowOf(c), None, None)
      ShareFuncAdj_now ==
        LinearInterp(mNrmAdj_nowOf(p, c), Share_nowOf(Share), p.ShareLimit, Zero)
      vPfuncAdj_now == MargValueFunc(cFuncAdj_now, p.CRRA)
      cFuncFxd_now == cFuncFxd_nowOf(p, Nvrs)
      dvdsFuncFxd_now == dvdsFuncFxd_nowOf(p, Nvrs, dvds)
      ShareFuncFxd_now == IdentityFunction(1, 2)
      dvdmFuncFxd_now == MargValueFunc2D(cFuncFxd_now, p.CRRA)
  IN PortfolioSolution(cFuncAdj_now, ShareFuncAdj_now, None, vPfuncAdj_now,
                       cFuncFxd_now, ShareFuncFxd_now, None, dvdmFuncFxd_now,
                       dvdsFuncFxd_now)

\* ------------------------------------------------------------------ state
VARIABLES
  params,            \* the arguments every solveConsPortfolio call is given
  solution_terminal, \* PortfolioConsumerType.solution_terminal, None before it is built
  solution_next,     \* the solution_next of the call in progress
  solution_now,      \* what the last completed call returned, None before
  nSolved,           \* the number of completed calls of this backward induction
  pc,                \* where the call in progress stands; "idle" between calls
  unpacked,          \* whether the call has read solution_next and ShockDstn
  called,            \* the fields of solution_next the call has evaluated
  EndOfPrddvda, EndOfPrddvdaNvrs, EndOfPrddvds,  \* locals of the call
  Share_now, cNrmAdj_now,                        \* locals of the call
  j,                 \* the loop variable of the crossing search, from 1
  stdout,            \* the asset levels the call has printed as without controls
  exc,               \* the exception raised, "None" when none
  RiskyAvg, RiskyStd, T_cycle,   \* attributes of the consumer type
  time_vary, time_inv,           \* its lists of time-varying / -invariant names
  RiskyDstn                      \* its attribute RiskyDstn, None before it is built

vars ==
  <<params, solution_terminal, solution_next, solution_now, nSolved, pc,
    unpacked, called, EndOfPrddvda, EndOfPrddvdaNvrs, EndOfPrddvds, Share_now,
    cNrmAdj_now, j, stdout, exc, RiskyAvg, RiskyStd, T_cycle, time_vary,
    time_inv, RiskyDstn>>

solverVars ==
  <<params, solution_terminal, solution_next, solution_now, nSolved, pc,
    unpacked, called, EndOfPrddvda, EndOfPrddvdaNvrs, EndOfPrddvds, Share_now,
    cNrmAdj_now, j, stdout>>

riskyVars == <<RiskyAvg, RiskyStd, T_cycle, time_vary, time_inv, RiskyDstn>>

callLocals ==
  <<EndOfPrddvda, EndOfPrddvdaNvrs, EndOfPrddvds, Share_now, cNrmAdj_now, j>>

\* ----------------------------------------------------------------- inputs
\* np.linspace(0., 1., ShareCount)
ShareGridOf(ShareCount) == [k \in 1..ShareCount |-> Q(k - 1, ShareCount - 1)]

\* The asset levels the grids are drawn from: 1/2, 1, 2, ...
AVals == {Q(1, 2)} \cup {Q(e, 1) : e \in 1..(MaxAXtra + 1)}

\* Strictly increasing grids of 1..MaxAXtra asset levels.
aXtraGrids ==
  {g \in UNION {[1..n -> AVals] : n \in 1..MaxAXtra} :
     \A i \in 1..(Len(g) - 1) : RLt(g[i], g[i + 1])}

\* A shock distribution with every permanent shock 1.
Dstn(prbs, trans, risky) ==
  [ShockPrbs |-> prbs, PermShks |-> [n \in 1..Len(prbs) |-> One],
   TranShks |-> trans, Risky |-> risky]

Half == Q(1, 2)

\* The shock distributions, with Rfree = 1.  Point masses: the risky return
\* equal to the risk free return, above it, below it.  Two risky returns with
\* positive premium (an interior optimum), with negative premium, with a
\* premium so large that the share is constrained; and a sure positive premium
\* together with an unemployment state of zero income.
PointDstns ==
  { Dstn(<<One>>, <<One>>, <<One>>),
    Dstn(<<One>>, <<One>>, <<Q(2, 1)>>),
    Dstn(<<One>>, <<One>>, <<Half>>) }

ShockDstns ==
  PointDstns \cup
  { Dstn(<<Half, Half>>, <<One, One>>, <<Half, Q(2, 1)>>),
    Dstn(<<Half, Half>>, <<One, One>>, <<Half, One>>),
    Dstn(<<Half, Half>>, <<One, One>>, <<One, Q(3, 1)>>),
    Dstn(<<Half, Half>>, <<Zero, One>>, <<Q(2, 1), Q(2, 1)>>) }

BoroCnstArtVals == {Zero, One, Q(-1, 2)}

AdjustPrbVals == {One, Half}

CRRAVals == {1}

\* The number of periods solved backward from the terminal one (the attribute
\* cycles of the consumer type, with T_cycle = 1).
CyclesVals == {1, 2}

\* The inputs.  A second period is solved for the point mass distributions
\* only: the exact values of a second period of the others, and of any third
\* period, exceed the integers TLC computes with.
ParamSets ==
  {p \in [BoroCnstArt : BoroCnstArtVals, ShockDstn : ShockDstns, LivPrb : {One},
          DiscFac : {One}, CRRA : CRRAVals, Rfree : {One}, PermGroFac : {One},
          aXtraGrid : aXtraGrids,
          ShareGrid : {ShareGridOf(c) : c \in 2..MaxShareCount},
          vFuncBool : BOOLEAN, AdjustPrb : AdjustPrbVals, ShareLimit : {Half},
          cycles : CyclesVals] :
     p.cycles = 1 \/ p.ShockDstn \in PointDstns}

NoArray == <<>>

\* ------------------------------------------------------------------- Init
\* The attributes that updateRiskyDstn works on, left alone by the solver.
InitRiskyIdle ==
  /\ RiskyAvg = None /\ RiskyStd = None /\ T_cycle = 1
  /\ time_vary = {} /\ time_inv = {"AdjustPrb"} /\ RiskyDstn = None

Init ==
  /\ params \in ParamSets
  /\ solution_terminal = None
  /\ solution_next = None
  /\ solution_now = None
  /\ nSolved = 0
  /\ pc = "idle"
  /\ unpacked = FALSE
  /\ called = <<>>
  /\ EndOfPrddvda = NoArray /\ EndOfPrddvdaNvrs = NoArray /\ EndOfPrddvds = NoArray
  /\ Share_now = NoArray /\ cNrmAdj_now = NoArray
  /\ j = 0
  /\ stdout = <<>>
  /\ exc = "None"
  /\ InitRiskyIdle

\* ---------------------------------------------------------------- actions
\* PortfolioConsumerType.updateSolutionTerminal (called by preSolve).
updateSolutionTerminal ==
  /\ pc = "idle"
  /\ nSolved = 0
  /\ solution_terminal' = TerminalSolution(params.CRRA)
  /\ UNCHANGED <<params, solution_next, solution_now, nSolved, pc, unpacked,
                 called, callLocals, stdout, exc, riskyVars>>

\* The caller's step of backward induction: solveConsPortfolio is entered with
\* the terminal solution first, with the solution it returned last after that.
solveOnePeriod ==
  /\ pc = "idle"
  /\ solution_terminal # None
  /\ nSolved < params.cycles
  /\ solution_next' = IF nSolved = 0 THEN solution_terminal ELSE solution_now
  /\ pc' = "check"
  /\ unpacked' = FALSE
  /\ called' = <<>>
  /\ EndOfPrddvda' = NoArray /\ EndOfPrddvdaNvrs' = NoArray
  /\ EndOfPrddvds' = NoArray /\ Share_now' = NoArray /\ cNrmAdj_now' = NoArray
  /\ j' = 0
  /\ stdout' = <<>>
  /\ UNCHANGED <<params, solution_terminal, solution_now, nSolved, exc, riskyVars>>

\* A check that lets a negative borrowing constraint through.
BoroCnstArtIsPositive(p) == RGt(p.BoroCnstArt, Zero)

\* Lines 385-386: the borrowing constraint must be zero.
BoroCnstArtIsBad(p) == RNe(p.BoroCnstArt, Zero)

CheckBoroCnstArt ==
  /\ pc = "check"
  /\ IF BoroCnstArtIsBad(params)
     THEN pc' = "raised" /\ exc' = "AttributeError"
     ELSE pc' = "expect" /\ exc' = exc
  /\ UNCHANGED <<params, solution_terminal, solution_next, solution_now, nSolved,
                 unpacked, called, callLocals, stdout, riskyVars>>

\* The first field, in the order of the calls, that is a NullFunc; 0 when none.
FirstNullCall(p, sn) ==
  LET cf == CalledFields(p)
      bad == {c \in 1..Len(cf) : sn[cf[c]] = NullFunc}
  IN IF bad = {} THEN 0 ELSE CHOOSE c \in bad : \A d \in bad : c <= d

\* Lines 388-456: unpack solution_next and ShockDstn and take the expectations.
\* Calling a field that is a NullFunc raises.
Expectations ==
  /\ pc = "expect"
  /\ unpacked' = TRUE
  /\ LET first == FirstNullCall(params, solution_next)
     IN IF first # 0
        THEN /\ called' = SubSeq(CalledFields(params), 1, first)
             /\ pc' = "raised"
             /\ exc' = "NullFunc"
             /\ UNCHANGED <<EndOfPrddvda, EndOfPrddvdaNvrs, EndOfPrddvds>>
        ELSE /\ called' = CalledFields(params)
             /\ pc' = "constrain"
             /\ exc' = exc
             /\ EndOfPrddvda' = EndOfPrddvdaOf(params, solution_next)
             /\ EndOfPrddvdaNvrs' = EndOfPrddvdaNvrsOf(params, EndOfPrddvda')
             /\ EndOfPrddvds' = EndOfPrddvdsOf(params, solution_next)
  /\ UNCHANGED <<params, solution_terminal, solution_next, solution_now, nSolved,
                 Share_now, cNrmAdj_now, j, stdout, riskyVars>>

\* Lines 459-469: the levels constrained at share 1, and the level a = 0.
Constrain ==
  /\ pc = "constrain"
  /\ Share_now' = Share_nowInit(params, EndOfPrddvds)
  /\ cNrmAdj_now' = cNrmAdj_nowInit(params, EndOfPrddvds, EndOfPrddvda)
  /\ j' = 1
  /\ pc' = "search"
  /\ UNCHANGED <<params, solution_terminal, solution_next, solution_now, nSolved,
                 unpacked, called, EndOfPrddvda, EndOfPrddvdaNvrs, EndOfPrddvds,
                 stdout, exc, riskyVars>>

\* A search that handles every level, whatever its share.
NeedsSearchAlways(Share, i) == TRUE

\* Lines 471: the levels the crossing search handles.
NeedsSearch(Share, i) == REq(Share[i], Zero)

\* Lines 470-484, one pass of the loop over the asset levels: without a crossing
\* the indexing raises, and the handler prints the level and goes on.
SearchStep ==
  /\ pc = "search"
  /\ j <= aNrm_N(params)
  /\ IF NeedsSearch(Share_now, j)
     THEN IF CrossingIdx(params, EndOfPrddvds, j) # {}
          THEN LET idx == LastCrossing(params, EndOfPrddvds, j)
               IN /\ Share_now' = [Share_now EXCEPT
                       ![j] = ShareAtCrossing(params, EndOfPrddvds, j, idx)]
                  /\ cNrmAdj_now' = [cNrmAdj_now EXCEPT
                       ![j] = cNrmAtCrossing(params, EndOfPrddvds,
                                             EndOfPrddvdaNvrs, j, idx)]
                  /\ stdout' = stdout
          ELSE /\ stdout' = Append(stdout, aNrmGridOf(params)[j])
               /\ UNCHANGED <<Share_now, cNrmAdj_now>>
     ELSE UNCHANGED <<Share_now, cNrmAdj_now, stdout>>
  /\ j' = j + 1
  /\ pc' = IF j = aNrm_N(params) THEN "build" ELSE "search"
  /\ UNCHANGED <<params, solution_terminal, solution_next, solution_now, nSolved,
                 unpacked, called, EndOfPrddvda, EndOfPrddvdaNvrs, EndOfPrddvds,
                 exc, riskyVars>>

\* Lines 486-526: build the functions and return the solution.
BuildSolution ==
  /\ pc = "build"
  /\ solution_now' = SolutionNow(params, Share_now, cNrmAdj_now,
                                 EndOfPrddvdaNvrs, EndOfPrddvds)
  /\ nSolved' = nSolved + 1
  /\ pc' = "idle"
  /\ UNCHANGED <<params, solution_terminal, solution_next, unpacked, called,
                 callLocals, stdout, exc, riskyVars>>

Next ==
  \/ updateSolutionTerminal
  \/ solveOnePeriod
  \/ CheckBoroCnstArt
  \/ Expectations
  \/ Constrain
  \/ SearchStep
  \/ BuildSolution

Spec == Init /\ [][Next]_vars

\* -------------------------------------------------------- updateRiskyDstn
\* RiskyAvg and RiskyStd are a number or a list of numbers:
\* [list |-> whether it is a list, val |-> the number or the sequence].
Scalar(x) == [list |-> FALSE, val |-> x]

List(xs) == [list |-> TRUE, val |-> xs]

\* type(x) is list
IsList(x) == x.list

RiskyAvgNums == {1, 2}

RiskyStdNums == {1}

ListsOver(S) == UNION {[1..n -> S] : n \in 0..(MaxTCycle + 1)}

RiskyAvgVals == {Scalar(x) : x \in RiskyAvgNums} \cup {List(xs) : xs \in ListsOver(RiskyAvgNums)}

RiskyStdVals == {Scalar(x) : x \in RiskyStdNums} \cup {List(xs) : xs \in ListsOver(RiskyStdNums)}

\* approxLognormal(RiskyCount, mu, sigma), with mu and sigma the lognormal
\* parameters of the mean avg and the standard deviation std: the distribution
\* is kept as the pair it is computed from.
approxLognormalOf(avg, std) ==
  [kind |-> "DiscreteDstn", RiskyAvg |-> avg, RiskyStd |-> std]

\* Line 229: both are lists, of equal length, of length T_cycle.
BothPerPeriod(avg, std, T) ==
  /\ IsList(avg) /\ IsList(std)
  /\ Len(avg.val) = Len(std.val)
  /\ Len(avg.val) = T

\* Line 231: one of them is a list.
EitherIsList(avg, std) == IsList(std) \/ IsList(avg)

\* addToTimeVary / addToTimeInv: the names are added to the list when absent.
addTo(names, new) == names \cup new

\* Lines 239-249: one distribution for each period of the cycle.
RiskyDstnPerPeriod(avg, std, T) ==
  [t \in 1..T |-> approxLognormalOf(avg.val[t], std.val[t])]

\* Lines 256-260: one distribution for all periods.
RiskyDstnShared(avg, std) == approxLognormalOf(avg.val, std.val)

\* An assignment to the attributes RiskyAvg and RiskyStd of the consumer type.
AssignRisky ==
  /\ \E avg \in RiskyAvgVals, std \in RiskyStdVals :
       /\ <<avg, std>> # <<RiskyAvg, RiskyStd>>
       /\ RiskyAvg' = avg
       /\ RiskyStd' = std
  /\ UNCHANGED <<solverVars, exc, T_cycle, time_vary, time_inv, RiskyDstn>>

\* PortfolioConsumerType.updateRiskyDstn, with time_flow True.  exc is the
\* exception the call ends with, "None" when it returns.
updateRiskyDstn ==
  /\ UNCHANGED <<solverVars, RiskyAvg, RiskyStd, T_cycle>>
  /\ IF BothPerPeriod(RiskyAvg, RiskyStd, T_cycle)
     THEN \* lines 230, 239-249
          /\ RiskyDstn' = RiskyDstnPerPeriod(RiskyAvg, RiskyStd, T_cycle)
          /\ time_vary' = addTo(addTo(time_vary, {"RiskyAvg", "RiskyStd"}), {"RiskyDstn"})
          /\ time_inv' = time_inv
          /\ exc' = "None"
     ELSE IF EitherIsList(RiskyAvg, RiskyStd)
     THEN \* line 232
          /\ exc' = "AttributeError"
          /\ UNCHANGED <<RiskyDstn, time_vary, time_inv>>
     ELSE IF "RiskyAvg" \in time_vary
     THEN \* lines 234, 238-243: a number is indexed by the period
          /\ time_inv' = addTo(time_inv, {"RiskyAvg", "RiskyStd"})
          /\ exc' = "TypeError"
          /\ UNCHANGED <<RiskyDstn, time_vary>>
     ELSE \* lines 234, 256-261
          /\ RiskyDstn' = RiskyDstnShared(RiskyAvg, RiskyStd)
          /\ time_inv' = addTo(addTo(time_inv, {"RiskyAvg", "RiskyStd"}), {"RiskyDstn"})
          /\ time_vary' = time_vary
          /\ exc' = "None"

\* The consumer type inside __init__, before update() is called (line 153) for
\* the first time: the attributes are set from the keywords, nothing is built.
InitRisky ==
  /\ RiskyAvg \in RiskyAvgVals
  /\ RiskyStd \in RiskyStdVals
  /\ T_cycle \in 1..MaxTCycle
  /\ time_vary = {}
  /\ time_inv = {"AdjustPrb"}
  /\ RiskyDstn = None
  /\ exc = "None"
  /\ params = CHOOSE p \in ParamSets : TRUE
  /\ solution_terminal = None
  /\ solution_next = None
  /\ solution_now = None
  /\ nSolved = 0
  /\ pc = "idle"
  /\ unpacked = FALSE
  /\ called = <<>>
  /\ EndOfPrddvda = NoArray /\ EndOfPrddvdaNvrs = NoArray /\ EndOfPrddvds = NoArray
  /\ Share_now = NoArray /\ cNrmAdj_now = NoArray
  /\ j = 0
  /\ stdout = <<>>

NextRisky ==
  \/ AssignRisky
  \/ updateRiskyDstn

SpecRisky == InitRisky /\ [][NextRisky]_vars

\* ---------------------------------------------------------------- claims
\* The states in which the crossing search of the call in progress, or of the
\* last call, has handled every asset level.
SearchDone == pc = "build" \/ (pc = "idle" /\ nSolved > 0)

\* A number of the interval [lo, hi]; a NaN is in no interval.
InRange(x, lo, hi) == RLe(lo, x) /\ RLe(x, hi)

\* The asset levels a > 0 that are not flagged as constrained.
SearchedLevels == {i \in 2..aNrm_N(params) : ~RGt(EndOfPrddvds[i][Share_N(params)], Zero)}

\* (s_k, s_k+1) brackets a zero of the marginal value of share at level i.
Brackets(i, k) ==
  RGe(EndOfPrddvds[i][k], Zero) /\ RLe(EndOfPrddvds[i][k + 1], Zero)

HasBracket(i) == \E k \in 1..(Share_N(params) - 1) : Brackets(i, k)

\* C1: a call with BoroCnstArt other than 0 ends with the input-contract
\* error, before solution_next or ShockDstn is read and before any field of
\* solution_next is called, and no solution is ever returned; a call with
\* BoroCnstArt equal to 0 never ends with this error.
C1_BoroCnstArtContract ==
  /\ RNe(params.BoroCnstArt, Zero) =>
       /\ pc \in {"idle", "check", "raised"}
       /\ pc = "raised" => exc = "AttributeError"
       /\ ~unpacked /\ called = <<>>
       /\ solution_now = None /\ nSolved = 0
  /\ REq(params.BoroCnstArt, Zero) => exc # "AttributeError"

C1_Witness ==
  /\ pc = "raised" /\ exc = "AttributeError"
  /\ RLt(params.BoroCnstArt, Zero)
  /\ ~unpacked /\ solution_next = solution_terminal

\* C2: when the search is over, no asset level a > 0 that is not constrained
\* and has no bracketing pair carries the default share 0 and consumption 0
\* unless the call has signalled the failure to its caller with an exception.
C2_NoSilentZero ==
  SearchDone =>
    \A i \in SearchedLevels :
      ~HasBracket(i) =>
        \/ exc # "None"
        \/ ~(REq(Share_now[i], Zero) /\ REq(cNrmAdj_now[i], Zero))

\* C3: in a returned solution vFuncAdj and vFuncFxd are populated exactly when
\* vFuncBool is true, and the other seven fields are always populated.
C3_ValueFuncFields ==
  solution_now # None =>
    /\ (solution_now.vFuncAdj # NullFunc) <=> params.vFuncBool
    /\ (solution_now.vFuncFxd # NullFunc) <=> params.vFuncBool
    /\ \A f \in SolutionFields \ {"vFuncAdj", "vFuncFxd"} : solution_now[f] # NullFunc

\* C4: when the search is over every entry of Share_now, the prepended one
\* included, is a number of [0,1], and so is the weight alpha of every level
\* given a share by interpolation.
C4_ShareInUnitInterval ==
  SearchDone =>
    /\ \A i \in 1..(aNrm_N(params) + 1) :
         InRange(Share_nowOf(Share_now)[i], Zero, One)
    /\ \A i \in SearchedLevels :
         HasBracket(i) =>
           LET k == SetMax({h \in 1..(Share_N(params) - 1) : Brackets(i, h)})
           IN InRange(alphaOf(EndOfPrddvds[i][k], EndOfPrddvds[i][k + 1]), Zero, One)

\* C5: when the search is over the endogenous grid mNrmAdj_now and the
\* consumption values cNrmAdj_now, each with the point prepended, are
\* non-decreasing in the index of the asset level.
C5_Monotone ==
  SearchDone =>
    \A i \in 1..aNrm_N(params) :
      /\ RLe(mNrmAdj_nowOf(params, cNrmAdj_now)[i],
             mNrmAdj_nowOf(params, cNrmAdj_now)[i + 1])
      /\ RLe(cNrmAdj_nowOf(cNrmAdj_now)[i], cNrmAdj_nowOf(cNrmAdj_now)[i + 1])

\* The risky return is a point mass at the risk-free factor.
ZeroPremium(p) ==
  \A n \in 1..Shock_N(p) : REq(p.ShockDstn.Risky[n], p.Rfree)

\* C6: with the risky return a point mass at Rfree and AdjustPrb = 1, in the
\* solve that follows the terminal period the marginal value of share is 0 at
\* every grid point, no asset level is printed as without controls, and every
\* level a > 0 gets a share that is a number of [0,1].
C6_ZeroPremium ==
  (SearchDone /\ nSolved <= 1 /\ solution_next = solution_terminal
     /\ ZeroPremium(params) /\ REq(params.AdjustPrb, One)) =>
    /\ \A i \in 1..aNrm_N(params), k \in 1..Share_N(params) :
         REq(EndOfPrddvds[i][k], Zero)
    /\ stdout = <<>>
    /\ \A i \in 2..aNrm_N(params) : InRange(Share_now[i], Zero, One)

\* C7: in every returned solution cFuncAdj(0) = 0 and ShareFuncAdj(0) = 1.
C7_ValuesAtZero ==
  solution_now # None =>
    /\ REq(Eval1(solution_now.cFuncAdj, Zero), Zero)
    /\ REq(Eval1(solution_now.ShareFuncAdj, Zero), One)

\* The resources and the shares the terminal solution is evaluated at.
MVals == {Zero, Half, One, Q(2, 1), Q(5, 2)}

SVals == {Zero, Q(1, 3), Half, One}

\* C8: the terminal solution has its nine fields populated, and at resources
\* m >= 0 and share s: cFuncAdj gives m, ShareFuncAdj gives 0, cFuncFxd gives
\* m, ShareFuncFxd gives s, dvdsFuncFxd gives 0.
C8_TerminalSolution ==
  solution_terminal # None =>
    /\ \A f \in SolutionFields : solution_terminal[f] \notin {None, NullFunc}
    /\ \A m \in MVals, s \in SVals :
         /\ Eval1(solution_terminal.cFuncAdj, m) = m
         /\ Eval1(solution_terminal.ShareFuncAdj, m) = Zero
         /\ Eval2(solution_terminal.cFuncFxd, m, s) = m
         /\ Eval2(solution_terminal.ShareFuncFxd, m, s) = s
         /\ Eval2(solution_terminal.dvdsFuncFxd, m, s) = Zero

C8_Witness ==
  /\ solution_terminal # None
  /\ solution_now # None
  /\ solution_next = solution_terminal

\* One of RiskyAvg and RiskyStd is a list, and they are not both lists of the
\* same length T.
ListMismatch(avg, std, T) ==
  /\ IsList(avg) \/ IsList(std)
  /\ ~(IsList(avg) /\ IsList(std) /\ Len(avg.val) = Len(std.val) /\ Len(avg.val) = T)

\* C9: a call of updateRiskyDstn ends with an exception exactly when the lists
\* mismatch, and then RiskyDstn, time_vary and time_inv are as before; with two
\* lists of length T_cycle it builds one distribution for each period; with
\* two numbers it builds one distribution for all periods.
C9_RiskyDstnContract ==
  [][updateRiskyDstn =>
       /\ (exc' # "None") <=> ListMismatch(RiskyAvg, RiskyStd, T_cycle)
       /\ exc' # "None" =>
            /\ exc' = "AttributeError"
            /\ UNCHANGED <<RiskyDstn, time_vary, time_inv>>
       /\ (IsList(RiskyAvg) /\ IsList(RiskyStd) /\ exc' = "None") =>
            RiskyDstn' = [t \in 1..T_cycle |->
                            approxLognormalOf(RiskyAvg.val[t], RiskyStd.val[t])]
       /\ (~IsList(RiskyAvg) /\ ~IsList(RiskyStd)) =>
            RiskyDstn' = approxLognormalOf(RiskyAvg.val, RiskyStd.val)]_vars

\* C10: when the search is over, every asset level a > 0 that is not
\* constrained and has a bracketing pair has the share and the consumption
\* interpolated between the points of its bracketing pair of highest index k,
\* at the zero of the marginal value of share; the share is in [s_k, s_k+1],
\* is s_k when the marginal value is 0 at s_k only, s_k+1 when 0 at s_k+1 only.
C10_HighestCrossing ==
  SearchDone =>
    \A i \in SearchedLevels :
      HasBracket(i) =>
        LET k == SetMax({h \in 1..(Share_N(params) - 1) : Brackets(i, h)})
            bot_f == EndOfPrddvds[i][k]
            top_f == EndOfPrddvds[i][k + 1]
            frac == RDiv(bot_f, RSub(bot_f, top_f))
            bot_s == params.ShareGrid[k]
            top_s == params.ShareGrid[k + 1]
        IN /\ InRange(Share_now[i], bot_s, top_s)
           /\ REq(Share_now[i], RAdd(bot_s, RMul(frac, RSub(top_s, bot_s))))
           /\ REq(cNrmAdj_now[i],
                  RAdd(EndOfPrddvdaNvrs[i][k],
                       RMul(frac, RSub(EndOfPrddvdaNvrs[i][k + 1],
                                       EndOfPrddvdaNvrs[i][k]))))
           /\ (REq(bot_f, Zero) /\ RNe(top_f, Zero)) => REq(Share_now[i], bot_s)
           /\ (REq(top_f, Zero) /\ RNe(bot_f, Zero)) => REq(Share_now[i], top_s)

\* The asset level i is a = 0 or is flagged as constrained at share 1.
FixedAtOne(i) == i = 1 \/ RGt(EndOfPrddvds[i][Share_N(params)], Zero)

\* C11: from the moment the constrained levels are set, through every pass of
\* the crossing search and after it, the level a = 0 and every level whose
\* marginal value of share at the last grid share is positive has share
\* exactly 1 and the consumption 1/EndOfPrddvda (CRRA = 1) of the last share
\* column, whether or not the level has a bracketing pair.
C11_ConstrainedKept ==
  (pc \in {"search", "build"} \/ SearchDone) =>
    \A i \in 1..aNrm_N(params) :
      FixedAtOne(i) =>
        /\ Share_now[i] = One
        /\ cNrmAdj_now[i] = RInv(EndOfPrddvda[i][Share_N(params)])

\* The search is over, a level a > 0 is constrained, and the level a = 0 has a
\* bracketing pair that the search has left alone.
C11_Witness ==
  /\ SearchDone
  /\ \E i \in 2..aNrm_N(params) : FixedAtOne(i)
  /\ HasBracket(1)
  /\ Share_now[1] = One

\* C12: when the search is over, every level a > 0 that is not constrained and
\* has no bracketing pair has a strictly negative marginal value of share at
\* the lowest grid share; and every level a > 0 whose marginal value of share
\* is <= 0 at the highest grid share and >= 0 at the lowest has a bracketing
\* pair.
C12_FailsOnlyBelowZero ==
  SearchDone =>
    /\ \A i \in SearchedLevels :
         ~HasBracket(i) => RLt(EndOfPrddvds[i][1], Zero)
    /\ \A i \in 2..aNrm_N(params) :
         (RLe(EndOfPrddvds[i][Share_N(params)], Zero) /\ RGe(EndOfPrddvds[i][1], Zero))
           => HasBracket(i)

\* C13: in a chain of solves that starts from the terminal solution, every
\* field of solution_next that a call has evaluated is populated: none is a
\* NullFunc.
C13_NoPlaceholderCalled ==
  solution_next # None =>
    \A c \in 1..Len(called) : solution_next[called[c]] # NullFunc

====
